---- MODULE Spec2Model ----
(***************************************************************************)
(* The concurrent turn-processing pipeline of src/src/main.rs:             *)
(* one producer_task per bot, the bounded mpsc queue, consumer_task (the   *)
(* dispatcher), the process_turn workers gated by the semaphore, and the   *)
(* tracker cleanup task.  Every `.await` of the source is a step boundary: *)
(* the tasks run on the multi-threaded tokio runtime and interleave there. *)
(*                                                                         *)
(* turn_tracker, ai and hivegame_bot_api are modules declared at           *)
(* main.rs:7-11 whose files are not among the sources; their operations    *)
(* (tracked, processing, processed, cleanup, spawn_process, run_commands,  *)
(* fake_get_games) follow the contracts of the specification.              *)
(***************************************************************************)
EXTENDS Integers, Sequences, FiniteSets, TLC

\* ---- bounds of the model --------------------------------------------------
\* main.rs:13 sets MAX_CONCURRENT_PROCESSES to 5 and main.rs:14 sets
\* QUEUE_CAPACITY to 1000; both are scaled down here so that an exhausted
\* pool and a full queue are reached.
MAX_CONCURRENT_PROCESSES == 1
QUEUE_CAPACITY == 1
\* Retention window of the tracker, in clock ticks.
RETENTION == 1
\* Positions returned by all fetches together.
MaxFetched == 2
\* Number of bots (main.rs:34-49 configures two).
NumBots == 2

Bots == 1..NumBots
\* The position strings the match service reports.
GameStrings == {"g1", "g2"}
\* Longest list one fetch returns.
MaxGames == 2

\* calculate_hash: a fingerprint per position string (collision-free on the
\* strings of the model, as SipHash is on any small set).
calculate_hash(game_string) ==
    CASE game_string = "g1" -> 11
      [] game_string = "g2" -> 22
      [] game_string = "g3" -> 33

Hashes == {calculate_hash(g) : g \in GameStrings}

\* GameTurn { game_string, hash, bot }
GameTurn(game_string, hash, bot) ==
    [game_string |-> game_string, hash |-> hash, bot |-> bot]

\* ---- the turn tracker -----------------------------------------------------
\* A Completed entry's timestamp is kept as its age, the time elapsed since
\* it was set (now - at), which is all cleanup looks at; an age beyond the
\* retention window is not counted further.
Unseen == [st |-> "Unseen", age |-> 0]
InFlight == [st |-> "InFlight", age |-> 0]
Completed(age) == [st |-> "Completed", age |-> age]

\* tracked(hash): an entry exists, InFlight or Completed
tracked(t, hash) == t[hash].st \in {"InFlight", "Completed"}

\* processing(hash): insert or overwrite an InFlight entry
processing(t, hash) == [t EXCEPT ![hash] = InFlight]

\* processed(hash): Completed with the current timestamp, whatever was there
processed(t, hash) == [t EXCEPT ![hash] = Completed(0)]

\* cleanup dropping an entry as soon as its age reaches the window
cleanupAtWindow(t) ==
    [h \in DOMAIN t |->
        IF t[h].st = "Completed" /\ t[h].age >= RETENTION
        THEN Unseen ELSE t[h]]

\* cleanup(): drop the Completed entries older than the retention window
cleanup(t) ==
    [h \in DOMAIN t |->
        IF t[h].st = "Completed" /\ t[h].age > RETENTION
        THEN Unseen ELSE t[h]]

\* ---- fetch results --------------------------------------------------------
RECURSIVE SeqsUpTo(_, _)
SeqsUpTo(S, n) ==
    IF n = 0 THEN {<<>>}
    ELSE LET shorter == SeqsUpTo(S, n - 1)
         IN shorter \cup {Append(s, x) : s \in shorter, x \in S}

\* fake_get_games: Ok(list of position strings)
FetchOk == SeqsUpTo(GameStrings, MaxGames)

VARIABLES
    pc,               \* pc[b]: where producer_task of bot b stands
    games,            \* games[b]: what is left of `for game_string in game_strings`
    fetched,          \* positions handed out by the match service so far
    fetch_failed,     \* fetch_failed[b]: bot b's fetch of this cycle returned Err
    tracker,          \* the TurnTracker's map
    queue,            \* the mpsc channel's buffer
    closed,           \* the channel's receiver has been dropped
    dpc,              \* where consumer_task stands
    workers,          \* the process_turn tasks spawned so far, by handle
    permits,          \* permits available in the semaphore
    active_processes, \* the Vec of join handles
    kept              \* handles the running retain has examined and kept

vars == <<pc, games, fetched, fetch_failed, tracker, queue, closed, dpc,
          workers, permits, active_processes, kept>>

producerVars == <<pc, games, fetched, fetch_failed>>
consumerVars == <<dpc, workers, active_processes, kept>>

Handles == 1..Len(workers)

\* ---- main -----------------------------------------------------------------
Init ==
    /\ pc = [b \in Bots |-> "fetch"]
    /\ games = [b \in Bots |-> <<>>]
    /\ fetched = 0
    /\ fetch_failed = [b \in Bots |-> FALSE]
    /\ tracker = [h \in Hashes |-> Unseen]
    /\ queue = <<>>
    /\ closed = FALSE
    /\ dpc = "recv"
    /\ workers = <<>>
    /\ permits = MAX_CONCURRENT_PROCESSES
    /\ active_processes = <<>>
    /\ kept = 0

\* elapse(): one unit of time passes and every Completed entry grows older
elapse(t) ==
    [h \in DOMAIN t |->
        IF t[h].st = "Completed" /\ t[h].age <= RETENTION
        THEN Completed(t[h].age + 1) ELSE t[h]]

\* time passes
Tick ==
    /\ tracker' = elapse(tracker)
    /\ tracker' # tracker
    /\ UNCHANGED <<producerVars, queue, closed, consumerVars, permits>>

\* main.rs:58-64: sleep, then cleanup_tracker.cleanup()
CleanupTask ==
    /\ tracker' = cleanup(tracker)
    /\ UNCHANGED <<producerVars, queue, closed, consumerVars, permits>>

\* ---- producer_task --------------------------------------------------------
\* where the for loop goes next: the next game string, or the sleep
NextGame(rest) == IF rest = <<>> THEN "sleep" ELSE "check"

\* main.rs:113-114: the fetch returns Ok(game_strings)
FetchGames(b) ==
    /\ pc[b] = "fetch"
    /\ \E gs \in FetchOk :
        /\ fetched + Len(gs) <= MaxFetched
        /\ fetched' = fetched + Len(gs)
        /\ games' = [games EXCEPT ![b] = gs]
        /\ pc' = [pc EXCEPT ![b] = NextGame(gs)]
    /\ fetch_failed' = [fetch_failed EXCEPT ![b] = FALSE]
    /\ UNCHANGED <<tracker, queue, closed, consumerVars, permits>>

\* FetchError ending the task instead of skipping the cycle
FetchErrorFatal(b) ==
    /\ pc[b] = "fetch"
    /\ pc' = [pc EXCEPT ![b] = "done"]
    /\ fetch_failed' = [fetch_failed EXCEPT ![b] = TRUE]
    /\ UNCHANGED <<games, fetched, tracker, queue, closed, consumerVars,
                   permits>>

\* main.rs:113,136: the fetch returns Err
FetchError(b) ==
    /\ pc[b] = "fetch"
    /\ pc' = [pc EXCEPT ![b] = "sleep"]
    /\ fetch_failed' = [fetch_failed EXCEPT ![b] = TRUE]
    /\ UNCHANGED <<games, fetched, tracker, queue, closed, consumerVars,
                   permits>>

\* main.rs:116-120: hash the string, skip it when tracked
CheckTracked(b) ==
    /\ pc[b] = "check"
    /\ LET hash == calculate_hash(Head(games[b]))
       IN IF tracked(tracker, hash)
          THEN /\ games' = [games EXCEPT ![b] = Tail(games[b])]
               /\ pc' = [pc EXCEPT ![b] = NextGame(Tail(games[b]))]
          ELSE /\ pc' = [pc EXCEPT ![b] = "mark"]
               /\ UNCHANGED games
    /\ UNCHANGED <<fetched, fetch_failed, tracker, queue, closed,
                   consumerVars, permits>>

\* main.rs:122-128: build the turn, turn_tracker.processing(hash)
MarkProcessing(b) ==
    /\ pc[b] = "mark"
    /\ tracker' = processing(tracker, calculate_hash(Head(games[b])))
    /\ pc' = [pc EXCEPT ![b] = "send"]
    /\ UNCHANGED <<games, fetched, fetch_failed, queue, closed,
                   consumerVars, permits>>

\* SendTurn on a channel that drops the turn when the buffer is full
SendTurnOrDrop(b) ==
    /\ pc[b] = "send"
    /\ ~closed
    /\ LET g == Head(games[b])
       IN queue' = IF Len(queue) < QUEUE_CAPACITY
                   THEN Append(queue, GameTurn(g, calculate_hash(g), b))
                   ELSE queue
    /\ games' = [games EXCEPT ![b] = Tail(games[b])]
    /\ pc' = [pc EXCEPT ![b] = NextGame(Tail(games[b]))]
    /\ UNCHANGED <<fetched, fetch_failed, tracker, closed, consumerVars,
                   permits>>

\* main.rs:130: sender.send(turn) returns Ok once the buffer has room
SendTurn(b) ==
    /\ pc[b] = "send"
    /\ ~closed
    /\ Len(queue) < QUEUE_CAPACITY
    /\ LET g == Head(games[b])
       IN queue' = Append(queue, GameTurn(g, calculate_hash(g), b))
    /\ games' = [games EXCEPT ![b] = Tail(games[b])]
    /\ pc' = [pc EXCEPT ![b] = NextGame(Tail(games[b]))]
    /\ UNCHANGED <<fetched, fetch_failed, tracker, closed, consumerVars,
                   permits>>

\* main.rs:130-133: sender.send(turn) returns Err (receiver gone): the
\* message is printed and `continue` goes on with the next game string
SendFailed(b) ==
    /\ pc[b] = "send"
    /\ closed
    /\ games' = [games EXCEPT ![b] = Tail(games[b])]
    /\ pc' = [pc EXCEPT ![b] = NextGame(Tail(games[b]))]
    /\ UNCHANGED <<fetched, fetch_failed, tracker, queue, closed,
                   consumerVars, permits>>

\* main.rs:139-140: the sleep ends and the loop starts over
Sleep(b) ==
    /\ pc[b] = "sleep"
    /\ pc' = [pc EXCEPT ![b] = "fetch"]
    /\ fetch_failed' = [fetch_failed EXCEPT ![b] = FALSE]
    /\ UNCHANGED <<games, fetched, tracker, queue, closed, consumerVars,
                   permits>>

\* ---- consumer_task --------------------------------------------------------
\* RecvAndSpawn receiving a turn and spawning nothing for it
RecvAndDiscard ==
    /\ dpc = "recv"
    /\ ~closed
    /\ queue # <<>>
    /\ queue' = Tail(queue)
    /\ dpc' = "recv"
    /\ UNCHANGED <<producerVars, tracker, closed, permits, workers,
                   active_processes, kept>>

\* RecvAndSpawn taking the turn sent last instead of the one sent first
RecvAndSpawnNewest ==
    /\ dpc = "recv"
    /\ ~closed
    /\ queue # <<>>
    /\ queue' = SubSeq(queue, 1, Len(queue) - 1)
    /\ workers' = Append(workers,
            [turn |-> queue[Len(queue)], pc |-> "acquire", outcome |-> "none",
             calls |-> 0])
    /\ dpc' = "push"
    /\ UNCHANGED <<producerVars, tracker, closed, permits, active_processes,
                   kept>>

\* RecvAndSpawn receiving only while the pool has a free permit
RecvAndSpawnGated ==
    /\ dpc = "recv"
    /\ ~closed
    /\ queue # <<>>
    /\ permits > 0
    /\ queue' = Tail(queue)
    /\ workers' = Append(workers,
            [turn |-> Head(queue), pc |-> "acquire", outcome |-> "none",
             calls |-> 0])
    /\ dpc' = "push"
    /\ UNCHANGED <<producerVars, tracker, closed, permits, active_processes,
                   kept>>

\* main.rs:151-159: rx.recv() returns a turn and tokio::spawn starts
\* process_turn for it: the new task runs from here on, while the dispatcher
\* still holds its handle
RecvAndSpawn ==
    /\ dpc = "recv"
    /\ ~closed
    /\ queue # <<>>
    /\ queue' = Tail(queue)
    /\ workers' = Append(workers,
            [turn |-> Head(queue), pc |-> "acquire", outcome |-> "none",
             calls |-> 0])
    /\ dpc' = "push"
    /\ UNCHANGED <<producerVars, tracker, closed, permits, active_processes,
                   kept>>

\* main.rs:161: active_processes.lock().await.push(handle); the handle is
\* that of the task spawned last
PushHandle ==
    /\ dpc = "push"
    /\ ~closed
    /\ active_processes' = Append(active_processes, Len(workers))
    /\ dpc' = "reap"
    /\ UNCHANGED <<producerVars, tracker, queue, closed, workers, permits,
                   kept>>

\* JoinHandle::is_finished
is_finished(handle) == workers[handle].pc = "done"

\* q without its i-th element
Without(q, i) == SubSeq(q, 1, i - 1) \o SubSeq(q, i + 1, Len(q))

\* retain with the test turned round: it keeps the finished handles
retainFinished(processes, k) ==
    IF is_finished(processes[k + 1]) THEN processes
    ELSE Without(processes, k + 1)

\* main.rs:198: retain examines the handle after the k it has kept, and
\* keeps it unless its task is finished
retain(processes, k) ==
    IF is_finished(processes[k + 1]) THEN Without(processes, k + 1)
    ELSE processes

\* main.rs:162 and main.rs:196-199: cleanup_processes, one handle at a time:
\* the workers go on, and may finish, while retain walks through the Vec
Reap ==
    /\ dpc = "reap"
    /\ ~closed
    /\ active_processes' = retain(active_processes, kept)
    /\ LET k == IF is_finished(active_processes[kept + 1]) THEN kept
                ELSE kept + 1
       IN IF k = Len(active_processes')
          THEN dpc' = "recv" /\ kept' = 0
          ELSE dpc' = "reap" /\ kept' = k
    /\ UNCHANGED <<producerVars, tracker, queue, closed, workers, permits>>

\* ---- process_turn ---------------------------------------------------------
\* A task whose future has returned: its turn and its locals are dropped;
\* `calls` keeps how often it called processed.
Returned(worker) ==
    [turn |-> GameTurn("", 0, 0), pc |-> "returned", outcome |-> "none",
     calls |-> worker.calls]

\* A task the runtime has marked complete: is_finished answers true.
Finished(worker) == [Returned(worker) EXCEPT !.pc = "done"]

\* AcquireSpawnOk with the permit gate left out
AcquireSpawnOkUngated(w) ==
    /\ workers[w].pc = "acquire"
    /\ permits' = permits - 1
    /\ workers' = [workers EXCEPT ![w].pc = "run"]
    /\ UNCHANGED <<producerVars, tracker, queue, closed, dpc,
                   active_processes, kept>>

\* main.rs:172-175: semaphore.acquire() returns a permit and
\* ai::spawn_process (a plain call, no await) returns Ok(child)
AcquireSpawnOk(w) ==
    /\ workers[w].pc = "acquire"
    /\ permits > 0
    /\ permits' = permits - 1
    /\ workers' = [workers EXCEPT ![w].pc = "run"]
    /\ UNCHANGED <<producerVars, tracker, queue, closed, dpc,
                   active_processes, kept>>

\* AcquireSpawnFailed returning at once, without the processed call
AcquireSpawnFailedUnmarked(w) ==
    /\ workers[w].pc = "acquire"
    /\ permits > 0
    /\ permits' = permits - 1
    /\ workers' = [workers EXCEPT ![w].pc = "ret", ![w].outcome = "spawn_err"]
    /\ UNCHANGED <<producerVars, tracker, queue, closed, dpc,
                   active_processes, kept>>

\* main.rs:172-177: semaphore.acquire() returns a permit and
\* ai::spawn_process returns Err
AcquireSpawnFailed(w) ==
    /\ workers[w].pc = "acquire"
    /\ permits > 0
    /\ permits' = permits - 1
    /\ workers' = [workers EXCEPT ![w].pc = "mark", ![w].outcome = "spawn_err"]
    /\ UNCHANGED <<producerVars, tracker, queue, closed, dpc,
                   active_processes, kept>>

\* RunCommands giving the permit back as soon as the conversation ends
RunCommandsReleasing(w) ==
    /\ workers[w].pc = "run"
    /\ \E result \in {"bestmove", "run_err"} :
        workers' = [workers EXCEPT ![w].pc = "mark", ![w].outcome = result]
    /\ permits' = permits + 1
    /\ UNCHANGED <<producerVars, tracker, queue, closed, dpc,
                   active_processes, kept>>

\* main.rs:183-191: ai::run_commands ends, with a best move or an error
RunCommands(w) ==
    /\ workers[w].pc = "run"
    /\ \E result \in {"bestmove", "run_err"} :
        workers' = [workers EXCEPT ![w].pc = "mark", ![w].outcome = result]
    /\ UNCHANGED <<producerVars, tracker, queue, closed, dpc, permits,
                   active_processes, kept>>

\* main.rs:178 and main.rs:193: turn_tracker.processed(turn.hash)
Processed(w) ==
    /\ workers[w].pc = "mark"
    /\ tracker' = processed(tracker, workers[w].turn.hash)
    /\ workers' = [workers EXCEPT ![w].pc = "ret",
                                  ![w].calls = workers[w].calls + 1]
    /\ UNCHANGED <<producerVars, queue, closed, dpc, permits,
                   active_processes, kept>>

\* Return without the drop of _permit
ReturnKeepingPermit(w) ==
    /\ workers[w].pc = "ret"
    /\ workers' = [workers EXCEPT ![w] = Returned(workers[w])]
    /\ UNCHANGED <<producerVars, tracker, queue, closed, dpc, permits,
                   active_processes, kept>>

\* main.rs:179 and main.rs:194: process_turn returns, _permit is dropped;
\* the runtime has not yet marked the task complete
Return(w) ==
    /\ workers[w].pc = "ret"
    /\ permits' = permits + 1
    /\ workers' = [workers EXCEPT ![w] = Returned(workers[w])]
    /\ UNCHANGED <<producerVars, tracker, queue, closed, dpc,
                   active_processes, kept>>

\* main.rs:155: the runtime marks the spawned task complete after its
\* future has returned; from here on its handle answers is_finished
TaskComplete(w) ==
    /\ workers[w].pc = "returned"
    /\ workers' = [workers EXCEPT ![w] = Finished(workers[w])]
    /\ UNCHANGED <<producerVars, tracker, queue, closed, dpc, permits,
                   active_processes, kept>>

Producer(b) ==
    \/ FetchGames(b)
    \/ FetchError(b)
    \/ CheckTracked(b)
    \/ MarkProcessing(b)
    \/ SendTurn(b)
    \/ Sleep(b)

Consumer ==
    \/ RecvAndSpawn
    \/ PushHandle
    \/ Reap

Worker(w) ==
    \/ AcquireSpawnOk(w)
    \/ AcquireSpawnFailed(w)
    \/ RunCommands(w)
    \/ Processed(w)
    \/ Return(w)
    \/ TaskComplete(w)

Next ==
    \/ Tick
    \/ CleanupTask
    \/ \E b \in Bots : Producer(b)
    \/ Consumer
    \/ \E w \in Handles : Worker(w)

Spec == Init /\ [][Next]_vars

\* ---- producer_task on a channel whose receiver goes away -----------------
\* The receiver is dropped: the consumer is gone, what the buffer holds is
\* discarded with it, and every later send returns Err (main.rs:130).
DropReceiver ==
    /\ ~closed
    /\ closed' = TRUE
    /\ queue' = <<>>
    /\ UNCHANGED <<producerVars, tracker, consumerVars, permits>>

NextClosed ==
    \/ Next
    \/ DropReceiver
    \/ \E b \in Bots : SendFailed(b)

SpecClosed == Init /\ [][NextClosed]_vars

\* ---- a burst of three turns ----------------------------------------------
\* One fetch of bot 1 has returned three positions, and the producer has
\* marked and sent all three (main.rs:115-134) before the dispatcher received
\* any: the buffer of main.rs:14 has room for them.  The match service
\* reports nothing further, so the producers only sleep and fetch nothing.
BurstGames == <<"g1", "g2", "g3">>
BurstTurns ==
    [i \in 1..Len(BurstGames) |->
        GameTurn(BurstGames[i], calculate_hash(BurstGames[i]), 1)]
BurstHashes == {BurstTurns[i].hash : i \in 1..Len(BurstTurns)}

InitBurst ==
    /\ pc = [b \in Bots |-> "sleep"]
    /\ games = [b \in Bots |-> <<>>]
    /\ fetched = Len(BurstGames)
    /\ fetch_failed = [b \in Bots |-> FALSE]
    /\ tracker = [h \in BurstHashes |-> InFlight]
    /\ queue = BurstTurns
    /\ closed = FALSE
    /\ dpc = "recv"
    /\ workers = <<>>
    /\ permits = MAX_CONCURRENT_PROCESSES
    /\ active_processes = <<>>
    /\ kept = 0

NextBurst ==
    \/ Tick
    \/ CleanupTask
    \/ Consumer
    \/ \E w \in Handles : Worker(w)

SpecBurst == InitBurst /\ [][NextBurst]_vars

\* ---- scheduling ----------------------------------------------------------
\* semaphore.acquire() returns, whatever spawn_process then answers
Acquire(w) == w \in Handles /\ (AcquireSpawnOk(w) \/ AcquireSpawnFailed(w))

\* The runtime keeps polling every task that can go on.  The semaphore and
\* the channel serve their waiters first come first served, so a waiter that
\* can be served again and again is served (strong fairness); the engine
\* conversation of run_commands is assumed to end.
Fairness ==
    /\ \A b \in Bots :
          /\ WF_vars(FetchGames(b) \/ FetchError(b) \/ CheckTracked(b)
                        \/ MarkProcessing(b) \/ Sleep(b))
          /\ SF_vars(SendTurn(b))
    /\ WF_vars(Consumer)
    /\ \A w \in 1..MaxFetched :
          /\ SF_vars(Acquire(w))
          /\ WF_vars(w \in Handles /\ (RunCommands(w) \/ Processed(w)
                                         \/ Return(w) \/ TaskComplete(w)))

FairSpec == Spec /\ Fairness

\* the burst under the same scheduling
BurstFairness ==
    /\ WF_vars(Consumer)
    /\ \A w \in 1..Len(BurstGames) :
          /\ SF_vars(Acquire(w))
          /\ WF_vars(w \in Handles /\ (RunCommands(w) \/ Processed(w)
                                         \/ Return(w) \/ TaskComplete(w)))

FairSpecBurst == SpecBurst /\ BurstFairness

\* the burst with only the dispatcher sure to go on: an engine conversation
\* may never end
DispatchSpecBurst == SpecBurst /\ WF_vars(Consumer)

TypeOK ==
    /\ pc \in [Bots -> {"fetch", "check", "mark", "send", "sleep"}]
    /\ permits \in 0..MAX_CONCURRENT_PROCESSES
    /\ Len(queue) <= QUEUE_CAPACITY

\* ---- properties -----------------------------------------------------------
\* process_turn invocations from their spawn until their call to processed
Active(h) ==
    {w \in Handles : workers[w].pc \in {"acquire", "run", "mark"}
                     /\ workers[w].turn.hash = h}

\* turns for h waiting in the channel
Queued(h) == {i \in 1..Len(queue) : queue[i].hash = h}

\* producer b completes a send
Sends(b) == pc[b] = "send" /\ pc'[b] # "send" /\ queue' # queue

\* the fingerprint producer b is working on
CurrentHash(b) == calculate_hash(Head(games[b]))

\* C1: for every fingerprint, at most one process_turn invocation is active
\* (spawned and not yet at its processed call) at any time.
DedupInvariant == \A h \in Hashes : Cardinality(Active(h)) <= 1

\* C2: a turn for F is sent only when no earlier turn for F is still
\* outstanding (queued, or held by an invocation that has not called
\* processed), and two producers never both hold F past the tracked check.
NoSecondEnqueue ==
    [][\A b \in Bots :
          Sends(b) =>
             /\ Queued(CurrentHash(b)) = {}
             /\ Active(CurrentHash(b)) = {}
             /\ \A c \in Bots \ {b} :
                   pc[c] \in {"mark", "send"} => CurrentHash(c) # CurrentHash(b)]_vars

\* invocations that hold a permit
Holders == {w \in Handles : workers[w].pc \in {"run", "mark", "ret"}}

\* C3: the invocations holding a permit never outnumber the pool's capacity.
ConcurrencyBound == Cardinality(Holders) <= MAX_CONCURRENT_PROCESSES

\* the pool is exhausted and a further invocation waits at the gate
PoolExhausted ==
    /\ Cardinality(Holders) = MAX_CONCURRENT_PROCESSES
    /\ \E w \in Handles : workers[w].pc = "acquire"

\* C5: an entry only goes Unseen -> InFlight, InFlight -> Completed and
\* Completed -> removed, and processing is only applied to an Unseen entry.
EntryLifecycle ==
    [][/\ \A h \in Hashes :
             tracker'[h].st # tracker[h].st =>
                \/ tracker[h].st = "Unseen" /\ tracker'[h].st = "InFlight"
                \/ tracker[h].st = "InFlight" /\ tracker'[h].st = "Completed"
                \/ tracker[h].st = "Completed" /\ tracker'[h].st = "Unseen"
       /\ \A b \in Bots :
             (pc[b] = "mark" /\ pc'[b] = "send") =>
                tracker[CurrentHash(b)].st = "Unseen"]_vars

\* C6: a cleanup step leaves every InFlight entry and every Completed entry
\* no older than the retention window as it is, and whatever it changes is a
\* Completed entry older than the window, which it removes.
CleanupTTL ==
    [][CleanupTask =>
          \A h \in Hashes :
             /\ tracker[h].st = "InFlight" => tracker'[h] = tracker[h]
             /\ (tracker[h].st = "Completed" /\ tracker[h].age <= RETENTION)
                   => tracker'[h] = tracker[h]
             /\ tracker'[h] # tracker[h] =>
                   /\ tracker[h].st = "Completed"
                   /\ tracker[h].age > RETENTION
                   /\ tracker'[h] = Unseen]_vars

\* an invocation has finished and cleanup has since removed its entry, while
\* another fingerprint is still in flight
CleanupRemoved ==
    /\ \E w \in Handles : workers[w].pc = "done"
    /\ \E h \in Hashes : tracker[h].st = "Unseen"
    /\ \E h \in Hashes : tracker[h].st = "InFlight"
    /\ \A h \in Hashes : tracker[h].st # "Completed"
    /\ Len(workers) = 2
    /\ \A b \in Bots : pc[b] \in {"fetch", "sleep"}

\* C4: every invocation eventually returns, having called processed exactly
\* once: never twice, and never returning without the call.
CompletionLiveness ==
    /\ [](\A w \in Handles :
             /\ workers[w].calls <= 1
             /\ workers[w].pc \in {"ret", "returned", "done"}
                   <=> workers[w].calls = 1)
    /\ \A w \in 1..MaxFetched :
          (w \in Handles) ~> (w \in Handles /\ workers[w].pc = "done")

\* one invocation has returned after its one processed call and another has
\* made the call after a failed spawn and is about to return
CompletedOnce ==
    /\ \E w \in Handles : workers[w].pc = "done" /\ workers[w].calls = 1
    /\ \E w \in Handles : workers[w].pc = "ret" /\ workers[w].outcome = "spawn_err"

\* C7: the buffer never exceeds its capacity; a producer at the send with the
\* buffer full stays there, its turn kept, until the dispatcher dequeues; every
\* send eventually completes and every queued turn reaches the dispatcher.
Backpressure ==
    /\ [](Len(queue) <= QUEUE_CAPACITY)
    /\ [][\A b \in Bots :
             (pc[b] = "send" /\ Len(queue) = QUEUE_CAPACITY /\ Len(queue') >= Len(queue))
                => (pc'[b] = "send" /\ games'[b] = games[b])]_vars
    /\ [][\A b \in Bots :
             (pc[b] = "send" /\ pc'[b] # "send")
                => queue' = Append(queue, GameTurn(Head(games[b]), CurrentHash(b), b))]_vars
    /\ \A b \in Bots : (pc[b] = "send") ~> (pc[b] # "send")
    /\ \A n \in 0..MaxFetched :
          (queue # <<>> /\ Len(workers) = n) ~> (Len(workers) > n)

\* the buffer is full and a producer waits at its send
ProducerBlocked ==
    /\ Len(queue) = QUEUE_CAPACITY
    /\ \E b \in Bots : pc[b] = "send"

\* C8: a producer whose send fails on the closed channel terminates: from the
\* failed send it goes nowhere but to its end.
SendFailureTerminates ==
    [][\A b \in Bots :
          (closed /\ pc[b] = "send") => pc'[b] \in {"send", "done"}]_vars

\* C9: after a spawn failure the invocation marks its fingerprint Completed
\* without a conversation, and no turn for that fingerprint is sent while the
\* Completed entry is tracked.
SpawnFailureTerminal ==
    [][/\ \A w \in Handles :
             (workers[w].outcome = "spawn_err" /\ workers'[w] # workers[w]) =>
                \/ /\ workers[w].pc = "mark" /\ workers'[w].pc = "ret"
                   /\ tracker'[workers[w].turn.hash].st = "Completed"
                \/ /\ workers[w].pc = "ret" /\ workers'[w].pc = "returned"
                   /\ permits' = permits + 1
       /\ \A b \in Bots :
             Sends(b) =>
                ~ \E w \in Handles :
                     /\ workers[w].outcome = "spawn_err"
                     /\ workers[w].pc = "ret"
                     /\ workers[w].turn.hash = CurrentHash(b)
                     /\ tracker[CurrentHash(b)].st = "Completed"]_vars

\* C10: a failed fetch leaves the tracker and the buffer as they are and
\* sends the producer to its sleep, from which it comes back to the fetch;
\* the producer never ends.
FetchFailureSkipsCycle ==
    /\ [][\A b \in Bots :
             (pc[b] = "fetch" /\ fetch_failed'[b]) =>
                /\ pc'[b] = "sleep"
                /\ UNCHANGED <<tracker, queue, games>>]_vars
    /\ [](\A b \in Bots : pc[b] # "done")
    /\ \A b \in Bots : (pc[b] = "sleep" /\ fetch_failed[b]) ~> (pc[b] = "fetch")

\* a producer sleeps after a failed fetch while a turn is queued and a
\* fingerprint is in flight
FetchFailedWhileBusy ==
    /\ \E b \in Bots : pc[b] = "sleep" /\ fetch_failed[b]
    /\ queue # <<>>
    /\ \E h \in Hashes : tracker[h].st = "InFlight"

\* C11: the permits available and the invocations between acquire and return
\* add up to the pool's capacity, so with no such invocation every permit is
\* available.
PermitConservation ==
    /\ permits + Cardinality(Holders) = MAX_CONCURRENT_PROCESSES
    /\ Holders = {} => permits = MAX_CONCURRENT_PROCESSES

\* two invocations have been spawned, both have returned, and the pool is
\* full again
PermitsAllBack ==
    /\ Len(workers) = 2
    /\ \A w \in Handles : workers[w].pc = "done"
    /\ permits = MAX_CONCURRENT_PROCESSES

\* C12: whenever a turn leaves the buffer exactly one new invocation holds it,
\* no invocation appears otherwise, and a turn stays with its invocation,
\* unchanged, until that invocation returns.
ExactlyOnceDispatch ==
    [][/\ Len(queue') < Len(queue) =>
             /\ Len(workers') = Len(workers) + 1
             /\ \E i \in 1..Len(queue) :
                   /\ queue' = Without(queue, i)
                   /\ workers'[Len(workers')].turn = queue[i]
                   /\ workers'[Len(workers')].pc = "acquire"
       /\ Len(workers') >= Len(workers)
       /\ Len(workers') > Len(workers) => Len(queue') = Len(queue) - 1
       /\ \A w \in Handles :
             workers'[w].pc \notin {"returned", "done"}
                => workers'[w].turn = workers[w].turn]_vars

\* the dispatcher has just handed a turn to a new invocation while an earlier
\* invocation, holding another turn, is at work
TurnHandedOver ==
    /\ dpc = "push"
    /\ Len(workers) = 2
    /\ workers[2].pc = "acquire"
    /\ workers[1].pc = "run"
    /\ workers[1].turn # workers[2].turn

\* the handles in the Vec, the tasks not yet complete, and the handle the
\* dispatcher has in hand between the spawn and the push
Outstanding == {active_processes[i] : i \in 1..Len(active_processes)}
Unfinished == {w \in Handles : workers[w].pc # "done"}
InHand == IF dpc = "push" THEN {Len(workers)} ELSE {}

\* C17 as stated: when a reap ends the Vec holds exactly the handles of the
\* invocations that have not finished.
ReapExact ==
    [][(dpc = "reap" /\ dpc' = "recv") => Outstanding' = Unfinished']_vars

\* C17 as amended: only the dispatcher changes the Vec; the handle of every
\* spawned invocation is added by the dispatcher's step after the spawn, so
\* until then the invocation, already running, is missing from the Vec; apart
\* from that one handle no unfinished invocation is ever missing from it; and
\* retain drops a handle exactly when its task is finished at the moment it
\* examines it.
ReapKeepsUnfinished ==
    /\ [](Unfinished \subseteq Outstanding \cup InHand)
    /\ [][active_processes' # active_processes => dpc \in {"push", "reap"}]_vars
    /\ [][(dpc = "recv" /\ dpc' # "recv") =>
             /\ dpc' = "push"
             /\ Len(workers') = Len(workers) + 1
             /\ active_processes' = active_processes]_vars
    /\ [][(dpc = "push" /\ dpc' # "push") =>
             /\ dpc' = "reap"
             /\ active_processes' = Append(active_processes, Len(workers))]_vars
    /\ [][(dpc = "reap" /\ <<dpc, kept, active_processes>>' # <<dpc, kept, active_processes>>) =>
             LET handle == active_processes[kept + 1]
             IN /\ workers[handle].pc = "done" <=> handle \notin Outstanding'
                /\ Outstanding' \subseteq Outstanding
                /\ Outstanding \ Outstanding' \subseteq {handle}]_vars

\* a reap has ended having dropped the finished invocation's handle and kept
\* the unfinished one's
ReapedOne ==
    /\ dpc = "recv"
    /\ Len(workers) = 2
    /\ workers[1].pc = "done"
    /\ workers[2].pc # "done"
    /\ Outstanding = {2}

\* invocations waiting at the permit gate
Waiting == {w \in Handles : workers[w].pc = "acquire"}

\* C13: of the three turns of the burst every one gets its invocation, never
\* more invocations than the pool has permits are past the gate, every
\* invocation waiting at the gate gets past it, and every one of the three
\* fingerprints becomes Completed.
BurstSerialised ==
    /\ [](Cardinality(Holders) <= MAX_CONCURRENT_PROCESSES)
    /\ <>(Len(workers) = Len(BurstGames))
    /\ \A w \in 1..Len(BurstGames) :
          (w \in Waiting) ~> (w \in Holders)
    /\ \A h \in BurstHashes : <>(tracker[h].st = "Completed")

\* all three invocations are spawned, one is past the gate, two wait
TwoWaitAtGate ==
    /\ Len(workers) = 3
    /\ Cardinality(Holders) = 1
    /\ Cardinality(Waiting) = 2
    /\ permits = 0

\* C14: no turn is sent for a fingerprint whose entry is Completed.
NoEnqueueWhileCompleted ==
    [][\A b \in Bots :
          Sends(b) => tracker[CurrentHash(b)].st # "Completed"]_vars

\* C15: with nothing assumed about the workers (a conversation may never
\* end, the pool may stay exhausted) every queued turn is still dequeued and
\* given its invocation.
DispatcherNeverWaits ==
    \A n \in 0..Len(BurstGames) :
       (queue # <<>> /\ Len(workers) = n) ~> (Len(workers) > n)

\* the pool is exhausted, the buffer is empty, and more invocations wait at
\* the gate than the pool has permits
WaitersExceedPool ==
    /\ permits = 0
    /\ queue = <<>>
    /\ Cardinality(Waiting) > MAX_CONCURRENT_PROCESSES

\* C16: the turns of the burst are received in the order in which they were
\* sent: the n-th invocation spawned holds the n-th turn sent, and the buffer
\* holds the turns sent after it, in their order.
FifoDelivery ==
    /\ queue = SubSeq(BurstTurns, Len(workers) + 1, Len(BurstTurns))
    /\ \A w \in Handles :
          workers[w].pc \notin {"returned", "done"}
             => workers[w].turn = BurstTurns[w]

\* the invocation of the turn sent last has returned while the invocation of
\* the turn sent first still waits at the gate
FinishedOutOfOrder ==
    /\ Len(workers) = Len(BurstTurns)
    /\ workers[Len(workers)].pc = "done"
    /\ workers[1].pc = "acquire"

\* invocations whose engine conversation is under way
Running == {w \in Handles : workers[w].pc = "run"}

\* C18: while an invocation's conversation goes on its fingerprint is
\* InFlight and its permit is held; while as many conversations go on as the
\* pool has permits, no invocation waiting at the gate passes it and no
\* fingerprint becomes Completed.
HungWorkerHolds ==
    /\ [](\A w \in Running : tracker[workers[w].turn.hash].st = "InFlight")
    /\ [](Cardinality(Running) = MAX_CONCURRENT_PROCESSES => permits = 0)
    /\ [][(Cardinality(Running) = MAX_CONCURRENT_PROCESSES /\ Running' = Running) =>
             /\ \A w \in Waiting : workers'[w].pc = "acquire"
             /\ \A h \in Hashes :
                   tracker'[h].st = "Completed" => tracker[h].st = "Completed"]_vars

\* C19: every turn in the buffer, and every turn held by an invocation that
\* has not called processed, has its fingerprint tracked as InFlight.
InFlightWhileOutstanding ==
    /\ \A i \in 1..Len(queue) : tracker[queue[i].hash].st = "InFlight"
    /\ \A w \in Handles :
          workers[w].pc \in {"acquire", "run", "mark"} =>
             tracker[workers[w].turn.hash].st = "InFlight"

\* C20: the processed call marks the fingerprint Completed and leaves the
\* permit with the invocation; a permit comes back only from an invocation
\* that has made its processed call.
ProcessedBeforeRelease ==
    [][\A w \in Handles :
          /\ (workers[w].pc = "mark" /\ workers'[w].pc # "mark") =>
                /\ tracker'[workers[w].turn.hash].st = "Completed"
                /\ permits' = permits
                /\ workers'[w].pc = "ret"
          /\ (permits' > permits /\ workers'[w] # workers[w]) =>
                /\ workers[w].pc = "ret"
                /\ workers[w].calls = 1]_vars

\* an invocation has returned and another one has taken the permit it freed
PermitHandedOver ==
    /\ permits = 0
    /\ \E w \in Handles : workers[w].pc = "done" /\ workers[w].calls = 1
    /\ \E w \in Handles : workers[w].pc = "run"
====
